---- MODULE Spec2Model ----
(***************************************************************************)
(* Model of the audio-ports extension of clack:                            *)
(*   src/extensions/src/audio_ports.rs         (types, decode, policy)     *)
(*   src/extensions/src/audio_ports/plugin.rs  (writer, plugin glue,       *)
(*                                              host call helpers)         *)
(* Four specifications share the variables:                                *)
(*   Spec       the plugin-side count/get glue, the writer and the         *)
(*              encode/decode round trip through a host-owned buffer;      *)
(*   SpecCodec  AudioPortInfo::from_raw applied to arbitrary raw records;  *)
(*   SpecRescan RescanType::requires_deactivate applied to every word;     *)
(*   SpecHost   the HostAudioPorts call helpers.                           *)
(***************************************************************************)
EXTENDS Integers, Sequences, FiniteSets, TLC

(* ------------------------------ bounds -------------------------------- *)

\* Width of the machine word standing for u32 (the code's width is 32).
WordBits == 7
\* Capacity of the fixed-size name field (CLAP_NAME_SIZE in clap-sys).
NameSize == 3
\* How many times one implementation of get may call writer.set.
MaxSets == 2
\* How many calls the host's functions receive before the host drains them.
MaxCalls == 2

(* ------------------------------ words --------------------------------- *)

RECURSIVE Pow2(_)
Pow2(n) == IF n = 0 THEN 1 ELSE 2 * Pow2(n - 1)

\* u32::MAX, the all-bits-set word.
U32_MAX == Pow2(WordBits) - 1
U32 == 0..U32_MAX

\* The positions of the bits set in a word.
Bits(w) == {i \in 0..(WordBits - 1) : (w \div Pow2(i)) % 2 = 1}

RECURSIVE FromBits(_)
FromBits(S) ==
  IF S = {} THEN 0
  ELSE LET i == CHOOSE j \in S : TRUE IN Pow2(i) + FromBits(S \ {i})

BitAnd(a, b) == FromBits(Bits(a) \cap Bits(b))
BitOr(a, b) == FromBits(Bits(a) \cup Bits(b))

(* ------------------------------ Option -------------------------------- *)

None == [some |-> FALSE]
Some(v) == [some |-> TRUE, val |-> v]

(* ------------------------------ ClapId -------------------------------- *)

\* ClapId::from_raw: the all-bits-set value means "absent".
ClapId_from_raw(raw) == IF raw = U32_MAX THEN None ELSE Some(raw)

\* ClapId::get: the identifier's integer.
ClapId_get(id) == id

\* ClapId::optional_to_raw: the sentinel when absent.
ClapId_optional_to_raw(o) == IF o.some THEN ClapId_get(o.val) ELSE U32_MAX

\* The values a ClapId can hold: every word but the sentinel.
ClapIds == U32 \ {U32_MAX}

(* ------------------------- C strings in memory ------------------------ *)

\* Null-terminated strings the program can point to, by address.  Addresses
\* 2 and 3 hold equal contents at different places; address 4 holds the
\* empty string.
NULL == 0
CStrMem == <<"mono", "stereo", "stereo", "">>
CStrAddrs == 1..Len(CStrMem)

\* CStr::from_ptr: the string a non-null pointer points to.
CStr_from_ptr(p) == CStrMem[p]
CStr_is_empty(s) == s = ""

CLAP_PORT_MONO == 1
CLAP_PORT_STEREO == 2

\* The address of an empty string.
EmptyCStr == CHOOSE a \in CStrAddrs : CStr_is_empty(CStr_from_ptr(a))

(* --------------------------- AudioPortType ---------------------------- *)

\* AudioPortType(&CStr): a reference to a string; as_raw is its address.
AudioPortType(addr) == [cstr |-> addr]
AudioPortType_as_raw(t) == t.cstr

\* Derived PartialEq on &CStr: equality of contents, not of addresses.
AudioPortType_eq(a, b) == CStr_from_ptr(a.cstr) = CStr_from_ptr(b.cstr)

AudioPortType_from_raw_keep_empty(raw) ==
  IF raw = NULL THEN None ELSE Some(AudioPortType(raw))

AudioPortType_from_raw(raw) ==
  IF raw = NULL THEN None
  ELSE IF CStr_is_empty(CStr_from_ptr(raw)) THEN None
       ELSE Some(AudioPortType(raw))

(* ----------------------------- RescanType ----------------------------- *)

NAMES == 1
FLAGS == 2
CHANNEL_COUNT == 4
PORT_TYPE == 8
IN_PLACE_PAIR == 16
LIST == 32

RescanType_all == FromBits(Bits(NAMES) \cup Bits(FLAGS) \cup Bits(CHANNEL_COUNT)
                           \cup Bits(PORT_TYPE) \cup Bits(IN_PLACE_PAIR) \cup Bits(LIST))

RESTART_REQUIRED_without_LIST ==
  BitOr(BitOr(BitOr(BitOr(FLAGS, CHANNEL_COUNT), PORT_TYPE), PORT_TYPE), IN_PLACE_PAIR)

RESTART_REQUIRED ==
  BitOr(BitOr(BitOr(BitOr(BitOr(FLAGS, CHANNEL_COUNT), PORT_TYPE), PORT_TYPE),
              IN_PLACE_PAIR), LIST)

\* bitflags' intersects: some bit in common.
intersects(a, b) == BitAnd(a, b) # 0

requires_deactivate(self) == intersects(self, RESTART_REQUIRED)

(* --------------------------- AudioPortFlags --------------------------- *)

IS_MAIN == 1
SUPPORTS_64BITS == 2
PREFERS_64BITS == 4
REQUIRES_COMMON_SAMPLE_SIZE == 8

AudioPortFlags_all ==
  BitOr(BitOr(BitOr(IS_MAIN, SUPPORTS_64BITS), PREFERS_64BITS), REQUIRES_COMMON_SAMPLE_SIZE)

\* bitflags' from_bits_truncate: the known bits of the word.
AudioPortFlags_from_bits_truncate(raw) == BitAnd(raw, AudioPortFlags_all)

\* bitflags' bits(): the underlying word.
AudioPortFlags_bits(f) == f

(* ---------------------- raw record and its memory --------------------- *)

\* A memory cell is uninitialised or holds a value.
Uninit == [init |-> FALSE]
Cell(v) == [init |-> TRUE, v |-> v]

\* MaybeUninit<clap_audio_port_info> before anything is written.
UninitBuf ==
  [id |-> Uninit, name |-> [i \in 1..NameSize |-> Uninit], flags |-> Uninit,
   channel_count |-> Uninit, port_type |-> Uninit, in_place_pair |-> Uninit]

BufDefined(b) ==
  /\ b.id.init /\ b.flags.init /\ b.channel_count.init
  /\ b.port_type.init /\ b.in_place_pair.init
  /\ \A i \in 1..NameSize : b.name[i].init

\* The clap_audio_port_info an initialised buffer holds.
BufValue(b) ==
  [id |-> b.id.v, name |-> [i \in 1..NameSize |-> b.name[i].v], flags |-> b.flags.v,
   channel_count |-> b.channel_count.v, port_type |-> b.port_type.v,
   in_place_pair |-> b.in_place_pair.v]

\* utils::write_to_array_buf: the name's bytes up to the capacity, the rest
\* of the field zero-filled.
write_to_array_buf(dst, value) ==
  [i \in 1..NameSize |-> IF i <= Len(value) THEN Cell(value[i]) ELSE Cell(0)]

\* utils::data_from_array_buf: the field's bytes up to its capacity.
data_from_array_buf(name) == name

(* ------------------------ AudioPortInfo::from_raw --------------------- *)

AudioPortInfo_from_raw_unchecked_id(raw) ==
  Some([id |-> raw.id,
        name |-> data_from_array_buf(raw.name),
        channel_count |-> raw.channel_count,
        flags |-> AudioPortFlags_from_bits_truncate(raw.flags),
        port_type |-> AudioPortType_from_raw(raw.port_type),
        in_place_pair |-> ClapId_from_raw(raw.in_place_pair)])

AudioPortInfo_from_raw(raw) ==
  LET id == ClapId_from_raw(raw.id) IN
  IF ~id.some THEN None
  ELSE Some([id |-> id.val,
             name |-> data_from_array_buf(raw.name),
             channel_count |-> raw.channel_count,
             flags |-> AudioPortFlags_from_bits_truncate(raw.flags),
             port_type |-> AudioPortType_from_raw(raw.port_type),
             in_place_pair |-> ClapId_from_raw(raw.in_place_pair)])

(* ------------------------- AudioPortInfoWriter ------------------------ *)

\* AudioPortInfoWriter::from_raw: wraps the memory, touches none of it.
AudioPortInfoWriter_from_raw(raw) == [buf |-> raw, is_set |-> FALSE]

AudioPortInfoWriter_is_set(w) == w.is_set

\* The field-by-field writes of set into the raw record.
EncodeInto(b, data) ==
  [id |-> Cell(ClapId_get(data.id)),
   name |-> write_to_array_buf(b.name, data.name),
   flags |-> Cell(AudioPortFlags_bits(data.flags)),
   channel_count |-> Cell(data.channel_count),
   port_type |-> Cell(IF data.port_type.some
                      THEN AudioPortType_as_raw(data.port_type.val)
                      ELSE NULL),
   in_place_pair |-> Cell(ClapId_optional_to_raw(data.in_place_pair))]

\* Variants of set with a slip in them: the first write wins; the name is
\* never written; the two scalar words land in each other's field.
AudioPortInfoWriter_set_first_wins(w, b, data) ==
  IF w.is_set THEN [writer |-> w, mem |-> b, writes |-> 0]
  ELSE [writer |-> [w EXCEPT !.is_set = TRUE], mem |-> EncodeInto(b, data), writes |-> 1]

AudioPortInfoWriter_set_skip_name(w, b, data) ==
  [writer |-> [w EXCEPT !.is_set = TRUE],
   mem |-> [EncodeInto(b, data) EXCEPT !.name = b.name], writes |-> 1]

AudioPortInfoWriter_set_swapped(w, b, data) ==
  [writer |-> [w EXCEPT !.is_set = TRUE],
   mem |-> [EncodeInto(b, data) EXCEPT !.flags = Cell(data.channel_count),
                                       !.channel_count = Cell(AudioPortFlags_bits(data.flags))],
   writes |-> 1]

\* AudioPortInfoWriter::set: the new writer, the new memory and the number of
\* times the record was written.
AudioPortInfoWriter_set(w, b, data) ==
  [writer |-> [w EXCEPT !.is_set = TRUE], mem |-> EncodeInto(b, data), writes |-> 1]

(* ------------------------- the plugin-side glue ----------------------- *)

\* What the closure handed to PluginWrapper::handle can do.
Ok(v) == [kind |-> "ok", val |-> v]
Err(e) == [kind |-> "err", val |-> e]
Panic == [kind |-> "panic", val |-> "unwind"]

\* PluginWrapper::handle: the closure's Ok value, or nothing when the closure
\* returned an error or unwound.
PluginWrapper_handle(r) == IF r.kind = "ok" THEN Some(r.val) ELSE None

is_null_never(p) == FALSE

\* info.is_null()
is_null(p) == p = "null"

get_Ok_always_true(w) == Ok(TRUE)

\* Ok(writer.is_set())
get_Ok(w) == Ok(AudioPortInfoWriter_is_set(w))

get_unwrap_or_true(o) == IF o.some THEN o.val ELSE TRUE

\* .unwrap_or(false)
get_unwrap_or(o) == IF o.some THEN o.val ELSE FALSE

\* .unwrap_or(0)
count_unwrap_or(o) == IF o.some THEN o.val ELSE 0

(* ------------------------------ inputs -------------------------------- *)

\* A bit no AudioPortFlags constant names.
UnknownFlagBit == Pow2(WordBits - 1)

\* Names shorter than, as long as and longer than the capacity; byte i of a
\* name is 64 + i, so every position is told apart.
NameOfLen(n) == [i \in 1..n |-> 64 + i]
Names == {NameOfLen(NameSize - 1), NameOfLen(NameSize), NameOfLen(NameSize + 1)}

\* The AudioPortInfo values an implementation hands to set.
Infos ==
  [id : {0, U32_MAX - 1},
   name : Names,
   channel_count : {2, U32_MAX},
   flags : {0, BitOr(IS_MAIN, PREFERS_64BITS), BitOr(IS_MAIN, UnknownFlagBit)},
   port_type : {None, Some(AudioPortType(CLAP_PORT_MONO)),
                Some(AudioPortType(CLAP_PORT_STEREO)), Some(AudioPortType(EmptyCStr))},
   in_place_pair : {None, Some(U32_MAX - 1)}]

NoInfo == CHOOSE d \in Infos : TRUE
NoWriter == [buf |-> "null", is_set |-> FALSE]

(* ------------------------------ state --------------------------------- *)

VARIABLES
  pc,          \* where the host's call into the plugin table stands
  index,       \* get's index argument
  is_input,    \* the direction argument of count and get
  info,        \* get's destination pointer: "null" or "buf"
  mem,         \* the host-owned clap_audio_port_info behind "buf"
  writer,      \* the AudioPortInfoWriter of the call in progress
  get_ret,     \* what the get glue returned
  count_ret,   \* what the count glue returned
  lastData,    \* the argument of the most recent writer.set
  nSets,       \* writer.set calls made by the implementation in this call
  implRan,     \* the implementation's method was invoked in this call
  implFailed,  \* the implementation unwound in this call
  memWrites,   \* writes made through the destination pointer in this call
  memReads,    \* reads made through the destination pointer in this call
  decoded,     \* the host's decode of the record the call left in mem
  raw,         \* SpecCodec: a raw record handed to AudioPortInfo::from_raw
  dec,         \* SpecCodec: the result of decoding raw
  cpc,         \* SpecCodec: "raw" before the decode, "decoded" after
  table,       \* SpecHost: which function pointers the host's table holds
  hostSeen,    \* SpecHost: the calls the host's functions received
  hop          \* SpecHost: the most recent helper call and its result

glueVars == <<pc, index, is_input, info, mem, writer, get_ret, count_ret, lastData,
              nSets, implRan, implFailed, memWrites, memReads, decoded>>
codecVars == <<raw, dec, cpc>>
hostVars == <<table, hostSeen, hop>>
vars == <<glueVars, codecVars, hostVars>>

(* --------------------- the plugin-side glue: actions ------------------ *)

GlueInit ==
  /\ pc = "idle"
  /\ index = 0
  /\ is_input = FALSE
  /\ info = "null"
  /\ mem = UninitBuf
  /\ writer = NoWriter
  /\ get_ret = FALSE
  /\ count_ret = 0
  /\ lastData = NoInfo
  /\ nSets = 0
  /\ implRan = FALSE
  /\ implFailed = FALSE
  /\ memWrites = 0
  /\ memReads = 0
  /\ decoded = None

\* The host calls the table's get with a null destination or with a fresh,
\* uninitialised record of its own.
HostCallGet ==
  /\ pc = "idle"
  /\ \E i \in {0, 1}, dir \in BOOLEAN, p \in {"null", "buf"} :
       /\ index' = i
       /\ is_input' = dir
       /\ info' = p
  /\ pc' = "get_called"
  /\ mem' = UninitBuf
  /\ writer' = NoWriter
  /\ get_ret' = FALSE
  /\ lastData' = NoInfo
  /\ nSets' = 0
  /\ implRan' = FALSE
  /\ implFailed' = FALSE
  /\ memWrites' = 0
  /\ memReads' = 0
  /\ decoded' = None
  /\ UNCHANGED count_ret
  /\ UNCHANGED <<codecVars, hostVars>>

\* get, up to the call of the implementation: the null check, then the
\* writer's construction.
GetEnter ==
  /\ pc = "get_called"
  /\ IF is_null(info)
     THEN /\ get_ret' = get_unwrap_or(PluginWrapper_handle(Err("NulPtr")))
          /\ pc' = "get_ret"
          /\ UNCHANGED <<writer, implRan>>
     ELSE /\ writer' = AudioPortInfoWriter_from_raw(info)
          /\ implRan' = TRUE
          /\ pc' = "get_impl"
          /\ UNCHANGED get_ret
  /\ UNCHANGED <<index, is_input, info, mem, count_ret, lastData, nSets, implFailed,
                 memWrites, memReads, decoded>>
  /\ UNCHANGED <<codecVars, hostVars>>

\* The implementation's get calls writer.set.
ImplSet ==
  /\ pc = "get_impl"
  /\ nSets < MaxSets
  /\ \E data \in Infos :
       LET r == AudioPortInfoWriter_set(writer, mem, data) IN
       /\ writer' = r.writer
       /\ mem' = r.mem
       /\ memWrites' = memWrites + r.writes
       /\ lastData' = data
  /\ nSets' = nSets + 1
  /\ UNCHANGED <<pc, index, is_input, info, get_ret, count_ret, implRan, implFailed,
                 memReads, decoded>>
  /\ UNCHANGED <<codecVars, hostVars>>

\* The implementation's get returns; the glue answers writer.is_set().
ImplGetReturn ==
  /\ pc = "get_impl"
  /\ get_ret' = get_unwrap_or(PluginWrapper_handle(get_Ok(writer)))
  /\ pc' = "get_ret"
  /\ UNCHANGED <<index, is_input, info, mem, writer, count_ret, lastData, nSets, implRan,
                 implFailed, memWrites, memReads, decoded>>
  /\ UNCHANGED <<codecVars, hostVars>>

\* The implementation's get unwinds; the glue answers the failure value.
ImplGetPanic ==
  /\ pc = "get_impl"
  /\ implFailed' = TRUE
  /\ get_ret' = get_unwrap_or(PluginWrapper_handle(Panic))
  /\ pc' = "get_ret"
  /\ UNCHANGED <<index, is_input, info, mem, writer, count_ret, lastData, nSets, implRan,
                 memWrites, memReads, decoded>>
  /\ UNCHANGED <<codecVars, hostVars>>

\* The host, told the record was populated, decodes it.
HostDecode ==
  /\ pc = "get_ret"
  /\ get_ret
  /\ BufDefined(mem)
  /\ decoded' = AudioPortInfo_from_raw(BufValue(mem))
  /\ memReads' = memReads + 1
  /\ pc' = "decoded"
  /\ UNCHANGED <<index, is_input, info, mem, writer, get_ret, count_ret, lastData, nSets,
                 implRan, implFailed, memWrites>>
  /\ UNCHANGED <<codecVars, hostVars>>

\* The host calls the table's count.
HostCallCount ==
  /\ pc = "idle"
  /\ \E dir \in BOOLEAN : is_input' = dir
  /\ pc' = "count_impl"
  /\ implRan' = TRUE
  /\ implFailed' = FALSE
  /\ count_ret' = 0
  /\ UNCHANGED <<index, info, mem, writer, get_ret, lastData, nSets, memWrites, memReads,
                 decoded>>
  /\ UNCHANGED <<codecVars, hostVars>>

\* The implementation's count returns n.
ImplCountReturn ==
  /\ pc = "count_impl"
  /\ \E n \in {0, 1, 2, U32_MAX} :
       count_ret' = count_unwrap_or(PluginWrapper_handle(Ok(n)))
  /\ pc' = "count_ret"
  /\ UNCHANGED <<index, is_input, info, mem, writer, get_ret, lastData, nSets, implRan,
                 implFailed, memWrites, memReads, decoded>>
  /\ UNCHANGED <<codecVars, hostVars>>

\* The implementation's count unwinds.
ImplCountPanic ==
  /\ pc = "count_impl"
  /\ implFailed' = TRUE
  /\ count_ret' = count_unwrap_or(PluginWrapper_handle(Panic))
  /\ pc' = "count_ret"
  /\ UNCHANGED <<index, is_input, info, mem, writer, get_ret, lastData, nSets, implRan,
                 memWrites, memReads, decoded>>
  /\ UNCHANGED <<codecVars, hostVars>>

\* The host is done with the call's result and drops the record.
HostRelease ==
  /\ pc \in {"get_ret", "decoded", "count_ret"}
  /\ pc' = "idle"
  /\ index' = 0
  /\ is_input' = FALSE
  /\ info' = "null"
  /\ mem' = UninitBuf
  /\ writer' = NoWriter
  /\ get_ret' = FALSE
  /\ count_ret' = 0
  /\ lastData' = NoInfo
  /\ nSets' = 0
  /\ implRan' = FALSE
  /\ implFailed' = FALSE
  /\ memWrites' = 0
  /\ memReads' = 0
  /\ decoded' = None
  /\ UNCHANGED <<codecVars, hostVars>>

(* ------------------ decoding arbitrary raw records -------------------- *)

\* Raw clap_audio_port_info values as the other party may have left them:
\* every flags word, the sentinel and its neighbours, every string pointer.
RawInfos ==
  [id : {0, 1, U32_MAX - 1, U32_MAX},
   name : {[i \in 1..NameSize |-> 0], [i \in 1..NameSize |-> 64 + i]},
   flags : U32,
   channel_count : {0, U32_MAX},
   port_type : {NULL} \cup CStrAddrs,
   in_place_pair : {0, U32_MAX}]

NoRaw == CHOOSE r \in RawInfos : TRUE

CodecInit ==
  /\ raw \in RawInfos
  /\ dec = None
  /\ cpc = "raw"

CodecIdle ==
  /\ raw = NoRaw
  /\ dec = None
  /\ cpc = "off"

\* AudioPortInfo::from_raw applied to the raw record.
Decode ==
  /\ cpc = "raw"
  /\ dec' = AudioPortInfo_from_raw(raw)
  /\ cpc' = "decoded"
  /\ UNCHANGED raw
  /\ UNCHANGED <<glueVars, hostVars>>

(* --------------------------- the host helpers ------------------------- *)

\* flag.bits()
RescanType_bits(f) == f

HostAudioPorts_is_rescan_flag_supported_default_true(tbl, flag, answer) ==
  IF ~tbl.is_rescan_flag_supported
  THEN [ret |-> TRUE, received |-> <<>>]
  ELSE [ret |-> answer,
        received |-> <<[fn |-> "is_rescan_flag_supported", bits |-> RescanType_bits(flag)]>>]

\* HostAudioPorts::is_rescan_flag_supported: tbl says which pointers are
\* present, answer is what the host's function returns when it is called.
HostAudioPorts_is_rescan_flag_supported(tbl, flag, answer) ==
  IF ~tbl.is_rescan_flag_supported
  THEN [ret |-> FALSE, received |-> <<>>]
  ELSE [ret |-> answer,
        received |-> <<[fn |-> "is_rescan_flag_supported", bits |-> RescanType_bits(flag)]>>]

\* HostAudioPorts::rescan
HostAudioPorts_rescan(tbl, flag) ==
  IF tbl.rescan
  THEN [received |-> <<[fn |-> "rescan", bits |-> RescanType_bits(flag)]>>]
  ELSE [received |-> <<>>]

NoOp == [op |-> "none", flag |-> 0, ret |-> FALSE, answer |-> FALSE, received |-> <<>>]

HostInit ==
  /\ table \in [is_rescan_flag_supported : BOOLEAN, rescan : BOOLEAN]
  /\ hostSeen = 0
  /\ hop = NoOp

HostIdle ==
  /\ table = [is_rescan_flag_supported |-> FALSE, rescan |-> FALSE]
  /\ hostSeen = 0
  /\ hop = NoOp

\* The plugin asks whether the host supports a rescan flag set.
CallIsRescanFlagSupported ==
  /\ hostSeen < MaxCalls
  /\ \E flag \in U32, answer \in BOOLEAN :
       LET r == HostAudioPorts_is_rescan_flag_supported(table, flag, answer) IN
       /\ hop' = [op |-> "is_rescan_flag_supported", flag |-> flag, ret |-> r.ret,
                  answer |-> answer, received |-> r.received]
       /\ hostSeen' = hostSeen + Len(r.received)
  /\ UNCHANGED table
  /\ UNCHANGED <<glueVars, codecVars>>

\* The plugin notifies the host of a rescan.
CallRescan ==
  /\ hostSeen < MaxCalls
  /\ \E flag \in U32 :
       LET r == HostAudioPorts_rescan(table, flag) IN
       /\ hop' = [op |-> "rescan", flag |-> flag, ret |-> FALSE, answer |-> FALSE,
                  received |-> r.received]
       /\ hostSeen' = hostSeen + Len(r.received)
  /\ UNCHANGED table
  /\ UNCHANGED <<glueVars, codecVars>>

\* The host works off the calls it received.
HostDrain ==
  /\ hostSeen > 0
  /\ hostSeen' = 0
  /\ UNCHANGED <<table, hop>>
  /\ UNCHANGED <<glueVars, codecVars>>

(* ------------------------- the rescan policy -------------------------- *)

\* SpecRescan keeps the flag set in raw's place and the answer in dec's.
RescanInit ==
  /\ raw \in U32
  /\ dec = None
  /\ cpc = "flags"

\* RescanType::requires_deactivate applied to the flag set.
RequiresDeactivate ==
  /\ cpc = "flags"
  /\ dec' = Some(requires_deactivate(raw))
  /\ cpc' = "answered"
  /\ UNCHANGED raw
  /\ UNCHANGED <<glueVars, hostVars>>

(* --------------------------- specifications --------------------------- *)

\* The plugin-side glue, the writer and the round trip.
Init == GlueInit /\ CodecIdle /\ HostIdle
Next ==
  \/ HostCallGet
  \/ GetEnter
  \/ ImplSet
  \/ ImplGetReturn
  \/ ImplGetPanic
  \/ HostDecode
  \/ HostCallCount
  \/ ImplCountReturn
  \/ ImplCountPanic
  \/ HostRelease
Spec == Init /\ [][Next]_vars

\* AudioPortInfo::from_raw on every raw record of RawInfos.
InitCodec == GlueInit /\ CodecInit /\ HostIdle
NextCodec == Decode
SpecCodec == InitCodec /\ [][NextCodec]_vars

\* RescanType::requires_deactivate on every word.
InitRescan == GlueInit /\ RescanInit /\ HostIdle
NextRescan == RequiresDeactivate
SpecRescan == InitRescan /\ [][NextRescan]_vars

\* The host call helpers against every table.
InitHost == GlueInit /\ CodecIdle /\ HostInit
NextHost ==
  \/ CallIsRescanFlagSupported
  \/ CallRescan
  \/ HostDrain
SpecHost == InitHost /\ [][NextHost]_vars

(* ------------------------------ claims -------------------------------- *)

KnownFlagBits == Bits(AudioPortFlags_all)
GetReturned == pc \in {"get_ret", "decoded"}

\* C1: when info is non-null and the implementation's get returns without a
\* failure, the get glue returns writer.is_set(); if set was never called it
\* returns false and the record was neither written nor read.
C1_UnsetIsFalse ==
  (GetReturned /\ info = "buf" /\ ~implFailed) =>
     /\ get_ret = AudioPortInfoWriter_is_set(writer)
     /\ (nSets = 0 =>
           /\ get_ret = FALSE
           /\ mem = UninitBuf
           /\ memWrites = 0
           /\ memReads = 0)

C1_Witness ==
  /\ pc = "get_ret" /\ info = "buf" /\ ~implFailed /\ implRan
  /\ index = 1 /\ is_input
  /\ nSets = 0 /\ get_ret = FALSE

\* C2: a fresh writer is not set and its construction wrote nothing; after
\* one or more set calls is_set is true and the record's id is the id of the
\* most recent call; once set the writer never becomes unset while it lives.
C2_State ==
  /\ (pc = "get_impl" /\ nSets = 0) =>
        (~AudioPortInfoWriter_is_set(writer) /\ mem = UninitBuf /\ memWrites = 0)
  /\ (nSets >= 1) =>
        (AudioPortInfoWriter_is_set(writer) /\ mem.id = Cell(lastData.id))

\* C2, as a behaviour: the state part always holds, and no step of a living
\* writer takes is_set from true to false.
C2_WriterOneWay ==
  /\ []C2_State
  /\ [][(writer.is_set /\ pc' # "idle") => writer'.is_set]_vars

C2_Witness ==
  /\ pc = "get_impl" /\ nSets >= 2
  /\ writer.is_set
  /\ lastData.id = U32_MAX - 1 /\ mem.id = Cell(U32_MAX - 1)

\* C3: AudioPortInfo::from_raw yields None when the raw id is the sentinel,
\* whatever the other fields hold, and otherwise a record with that same id.
C3_SentinelDecode ==
  (cpc = "decoded") =>
     /\ (raw.id = U32_MAX) => (dec = None)
     /\ (raw.id # U32_MAX) => (dec.some /\ dec.val.id = raw.id)

C3_Witness ==
  /\ cpc = "decoded" /\ raw.id = U32_MAX /\ dec = None
  /\ raw.flags = IS_MAIN /\ raw.port_type = CLAP_PORT_STEREO /\ raw.in_place_pair = 0

\* C4: over the 2^6 combinations of the six rescan flags, requires_deactivate
\* is true exactly when the set holds a bit other than NAMES; false for {} and
\* {NAMES}, true for {NAMES, FLAGS} and {LIST}.
C4_RescanPredicate ==
  (cpc = "answered" /\ Bits(raw) \subseteq Bits(RescanType_all)) =>
     /\ dec.val = (Bits(raw) \ Bits(NAMES) # {})
     /\ (raw = 0 => dec.val = FALSE)
     /\ (raw = NAMES => dec.val = FALSE)
     /\ (raw = NAMES + FLAGS => dec.val = TRUE)
     /\ (raw = LIST => dec.val = TRUE)

C4_Witness ==
  cpc = "answered" /\ raw = NAMES + FLAGS /\ dec = Some(TRUE)

\* C5: with rescan null the rescan helper invokes nothing and the host sees
\* nothing; with is_rescan_flag_supported null the query returns false for
\* every flag set; a present pointer is invoked exactly once with the flag
\* set's bits, and the query returns the host's answer unchanged.
C5_State ==
  /\ (hop.op = "rescan" /\ ~table.rescan) => (hop.received = <<>>)
  /\ (hop.op = "rescan" /\ table.rescan) =>
        (hop.received = <<[fn |-> "rescan", bits |-> hop.flag]>>)
  /\ (hop.op = "is_rescan_flag_supported" /\ ~table.is_rescan_flag_supported) =>
        (hop.ret = FALSE /\ hop.received = <<>>)
  /\ (hop.op = "is_rescan_flag_supported" /\ table.is_rescan_flag_supported) =>
        /\ hop.received = <<[fn |-> "is_rescan_flag_supported", bits |-> hop.flag]>>
        /\ hop.ret = hop.answer

\* C5, as a behaviour: the state part always holds, a helper call through an
\* absent pointer leaves the host's count of received calls alone, and one
\* through a present pointer adds exactly one.
C5_NegotiatedCalls ==
  /\ []C5_State
  /\ [][(hop' # hop /\ hop'.received = <<>>) => hostSeen' = hostSeen]_vars
  /\ [][(hop' # hop /\ hop'.received # <<>>) => hostSeen' = hostSeen + 1]_vars

C5_Witness ==
  /\ hop.op = "is_rescan_flag_supported" /\ ~table.is_rescan_flag_supported
  /\ table.rescan /\ hostSeen = 1
  /\ hop.flag = U32_MAX /\ hop.answer = TRUE /\ hop.ret = FALSE

\* C6: set encodes Some(s), s non-empty, as a non-null pointer that decodes
\* to a present type content-equal to s, and None as a null pointer that
\* decodes to None; a null pointer and a pointer to an empty string both
\* decode to None.
C6_PortTypeRoundTrip ==
  /\ (nSets >= 1 /\ ~lastData.port_type.some) => (mem.port_type = Cell(NULL))
  /\ (nSets >= 1 /\ lastData.port_type.some) =>
        (mem.port_type.init /\ mem.port_type.v # NULL)
  /\ (pc = "decoded") =>
        /\ (~lastData.port_type.some) => (decoded.val.port_type = None)
        /\ (lastData.port_type.some
              /\ ~CStr_is_empty(CStr_from_ptr(lastData.port_type.val.cstr))) =>
              /\ decoded.val.port_type.some
              /\ AudioPortType_eq(decoded.val.port_type.val, lastData.port_type.val)
        /\ (mem.port_type.v = NULL) => (decoded.val.port_type = None)
        /\ (mem.port_type.v # NULL /\ CStr_from_ptr(mem.port_type.v) = "") =>
              (decoded.val.port_type = None)

C6_Witness ==
  /\ pc = "decoded"
  /\ lastData.port_type = Some(AudioPortType(CLAP_PORT_STEREO))
  /\ mem.port_type.v # NULL
  /\ decoded.val.port_type.some
  /\ CStr_from_ptr(decoded.val.port_type.val.cstr) = "stereo"

C8_NullInfo ==
  (info = "null" /\ pc \in {"get_impl", "get_ret", "decoded"}) =>
     /\ pc = "get_ret"
     /\ get_ret = FALSE
     /\ writer = NoWriter
     /\ ~implRan
     /\ nSets = 0
     /\ mem = UninitBuf
     /\ memWrites = 0
     /\ memReads = 0

C8_Witness ==
  /\ pc = "get_ret" /\ info = "null" /\ index = 1 /\ is_input
  /\ get_ret = FALSE /\ ~implRan

\* C9: a failure of the implementation does not cross the boundary: count
\* returns 0, get returns false even after set was called; get returns true
\* only if the implementation completed without failure and called set.
C9_FailureContained ==
  /\ (pc = "count_ret" /\ implFailed) => (count_ret = 0)
  /\ (GetReturned /\ implFailed) => (get_ret = FALSE)
  /\ (GetReturned /\ get_ret) => (implRan /\ ~implFailed /\ nSets >= 1)

C9_Witness ==
  /\ pc = "get_ret" /\ implFailed /\ nSets >= 1 /\ writer.is_set
  /\ get_ret = FALSE

\* C10 as stated: decoding what set encoded yields a present record with the
\* same id, channel_count, flags and in_place_pair, and a raw flags word
\* decodes to exactly its known bits.
C10_Original ==
  (pc = "decoded") =>
     /\ decoded.some
     /\ decoded.val.id = lastData.id
     /\ decoded.val.channel_count = lastData.channel_count
     /\ decoded.val.flags = lastData.flags
     /\ decoded.val.in_place_pair = lastData.in_place_pair
     /\ Bits(decoded.val.flags) = Bits(mem.flags.v) \cap KnownFlagBits

\* C10 amended: decoding what set encoded yields a present record with the
\* same id, channel_count and in_place_pair and with the known bits of the
\* flags (the same flags when they hold known bits only); a raw flags word
\* decodes to exactly its known bits.
C10_ScalarRoundTrip ==
  (pc = "decoded") =>
     /\ decoded.some
     /\ decoded.val.id = lastData.id
     /\ decoded.val.channel_count = lastData.channel_count
     /\ Bits(decoded.val.flags) = Bits(lastData.flags) \cap KnownFlagBits
     /\ (Bits(lastData.flags) \subseteq KnownFlagBits) =>
           (decoded.val.flags = lastData.flags)
     /\ decoded.val.in_place_pair = lastData.in_place_pair
     /\ Bits(decoded.val.flags) = Bits(mem.flags.v) \cap KnownFlagBits

C10_Witness ==
  /\ pc = "decoded" /\ decoded.some
  /\ lastData.flags = IS_MAIN + PREFERS_64BITS /\ decoded.val.flags = lastData.flags
  /\ lastData.in_place_pair = Some(U32_MAX - 1)
  /\ decoded.val.in_place_pair = Some(U32_MAX - 1)
  /\ decoded.val.channel_count = U32_MAX

====
